---------------------------- MODULE Spec2Model ----------------------------
(***************************************************************************)
(* Client-side session and conversation state machine of the chat client.  *)
(*                                                                         *)
(* The repository holds three variants of the ChatApp component:           *)
(*   "real"  - app/components/ChatApp.tsx: logs in and chats over HTTP     *)
(*             (fetch), keeps the bearer token in localStorage;            *)
(*   "multi" - unnamed/part_001: several conversations, local login,       *)
(*             assistant replies fabricated by a 1000 ms timer;            *)
(*   "sim"   - unnamed/part_002: one conversation, local login with a      *)
(*             greeting message, replies fabricated by a 1000 ms timer.    *)
(* The variant is fixed in the initial state.  Every handler runs to       *)
(* completion on the single event loop against the committed React state;  *)
(* the only suspension points are the awaits on fetch and the timers.      *)
(* darkMode, the scroll effect and the markup are presentation only and    *)
(* are left out.                                                           *)
(***************************************************************************)
EXTENDS Naturals, Sequences, FiniteSets

VARIABLES
    variant,              \* which ChatApp component is mounted
    isLoggedIn,           \* useState(false)
    username,             \* useState('')
    messages,             \* useState<Message[]>([])
    origin,               \* history: for each message, the request it is of
    userInput,            \* useState('')
    conversations,        \* useState<Conversation[]>([])        ("multi")
    currentConversation,  \* useState<Conversation | null>(null) ("multi")
    localStorage,         \* the browser's localStorage          ("real")
    loginReqs,            \* POST /login requests awaiting their response
    chatReqs,             \* POST /chat requests awaiting their response
    timers,               \* pending setTimeout callbacks, in creation order
    now,                  \* the value Date.now() returns
    nLogins,              \* number of login requests issued so far
    nextId,               \* number of chat requests / timers started so far
    lastOp,               \* history: the step taken last
    run                   \* history: the exchange since the last login

vars == <<variant, isLoggedIn, username, messages, origin, userInput,
          conversations, currentConversation, localStorage, loginReqs,
          chatReqs, timers,
          now, nLogins, nextId, lastOp, run>>

-----------------------------------------------------------------------------
(* Bounds of the model. *)

MaxLogins == 2     \* login requests issued over a run
MaxSubmits == 2    \* accepted chat submissions over a run
MaxConvs == 2      \* conversations in one registry
MaxClock == 1      \* Date.now() ranges over 0..MaxClock

-----------------------------------------------------------------------------
(* Values. *)

Variants == {"real", "multi", "sim"}

\* A string is a sequence of characters; a literal part of a template
\* string is kept as one element.
Strings == { <<>>, <<" ">>, <<" ", "a">> }

\* Bearer tokens and reply texts the backend may send.  (A login answered
\* without a token stores "undefined", so two values can be stored.)
Tokens == {"T1"}
Replies == { <<"hello">> }

\* An optional JavaScript value: undefined (or null), or a value.
undefined == <<>>
Some(x) == <<x>>

IsSpace(c) == c = " "

\* Mutant of Trim: `if (username)` in place of `if (username.trim())`.
Trim_None(s) == s

\* String.prototype.trim: strip leading and trailing white space.
RECURSIVE TrimStart(_)
TrimStart(s) ==
    IF s # <<>> /\ IsSpace(Head(s)) THEN TrimStart(Tail(s)) ELSE s

RECURSIVE TrimEnd(_)
TrimEnd(s) ==
    IF s # <<>> /\ IsSpace(s[Len(s)])
    THEN TrimEnd(SubSeq(s, 1, Len(s) - 1))
    ELSE s

Trim(s) == TrimEnd(TrimStart(s))

\* Truthiness of a string: the empty string is falsy.
Truthy(s) == s # <<>>

\* String(v) as localStorage.setItem applies it to its value.
ToString(v) == IF v = undefined THEN "undefined" ELSE v[1]

\* type Message = { role, content }
Message(r, c) == [role |-> r, content |-> c]

\* type Conversation = { id, title }; the title is `Conversation ${n}`.
Conversation(i, n) == [id |-> i, title |-> <<"Conversation ", n>>]

\* Mutant of removeItem: the stored item is left behind.
removeItem_Keep(k) == localStorage

\* localStorage as a set of <<key, value>> pairs with at most one per key.
getItem(k) == { kv[2] : kv \in { p \in localStorage : p[1] = k } }

setItem(k, v) == { p \in localStorage : p[1] # k } \cup { <<k, v>> }

removeItem(k) == { p \in localStorage : p[1] # k }

\* What a fetch can come back with: a rejected promise (transport error),
\* or a response with a status (ok or not) and a body that parses as JSON
\* (json) to an object whose expected field is val, or does not parse.
Responses(F) ==
    { [net |-> "error", ok |-> FALSE, json |-> FALSE, val |-> undefined],
      [net |-> "done", ok |-> FALSE, json |-> TRUE, val |-> undefined],
      [net |-> "done", ok |-> TRUE, json |-> FALSE, val |-> undefined],
      [net |-> "done", ok |-> TRUE, json |-> TRUE, val |-> undefined] }
    \cup { [net |-> "done", ok |-> TRUE, json |-> TRUE, val |-> Some(v)] : v \in F }

\* Mutant of Parsed: the `if (response.ok)` test is missing.
Parsed_NoOkTest(resp) == resp.net = "done" /\ resp.json

\* The response reaches the code after `if (response.ok)` and the parse.
Parsed(resp) == resp.net = "done" /\ resp.ok /\ resp.json

\* History record: the handler that ran last, the request it resumed (0 when
\* it resumed none) and the response it was given (NoResp when none).
NoResp == [net |-> "none", ok |-> FALSE, json |-> FALSE, val |-> undefined]
Op(name, id, resp) == [op |-> name, id |-> id, resp |-> resp]

\* History of the session opened by the last login: the submissions it
\* accepted (sent), the assistant replies appended for it (replied), whether
\* a submission was accepted while an earlier request was still pending
\* (overlap), and whether it started with an empty log and nothing pending
\* and has not had its log cleared after a submission (clean).
Run(c) == [sent |-> 0, replied |-> 0, overlap |-> FALSE, clean |-> c]
NoRun == Run(FALSE)
Pending == chatReqs # {} \/ timers # <<>>
Sent(r) == [r EXCEPT !.sent = @ + 1, !.overlap = @ \/ Pending]
Replied(r) == IF isLoggedIn THEN [r EXCEPT !.replied = @ + 1] ELSE r
Cleared(r) == [r EXCEPT !.clean = @ /\ r.sent = 0]

-----------------------------------------------------------------------------
(* Initial state: the component has just been mounted. *)

Init ==
    /\ variant \in Variants
    /\ isLoggedIn = FALSE
    /\ username = <<>>
    /\ messages = <<>>
    /\ origin = <<>>
    /\ userInput = <<>>
    /\ conversations = <<>>
    /\ currentConversation = undefined
    /\ localStorage = {}
    /\ loginReqs = {}
    /\ chatReqs = {}
    /\ timers = <<>>
    /\ now = 0
    /\ nLogins = 0
    /\ nextId = 0
    /\ lastOp = Op("mount", 0, NoResp)
    /\ run = NoRun

-----------------------------------------------------------------------------
(* The login screen (rendered while !isLoggedIn). *)

\* onChange of the username input: setUsername(e.target.value)
setUsername(v) ==
    /\ ~isLoggedIn
    /\ v # username
    /\ username' = v
    /\ lastOp' = Op("setUsername", 0, NoResp)
    /\ UNCHANGED <<variant, isLoggedIn, messages, userInput, conversations,
                   currentConversation, localStorage, loginReqs, chatReqs,
                   timers, now, nLogins, nextId, run, origin>>

\* ChatApp.tsx handleLogin up to the await: issue POST /login.
handleLoginReal ==
    /\ variant = "real"
    /\ ~isLoggedIn
    /\ IF Truthy(Trim(username))
       THEN /\ nLogins < MaxLogins
            /\ nLogins' = nLogins + 1
            /\ loginReqs' = loginReqs \cup
                    { [id |-> nLogins + 1, username |-> username] }
       ELSE UNCHANGED <<nLogins, loginReqs>>
    /\ lastOp' = Op("handleLogin", 0, NoResp)
    /\ UNCHANGED <<variant, isLoggedIn, username, messages, userInput,
                   conversations, currentConversation, localStorage,
                   chatReqs, timers, now, nextId, run, origin>>

\* Mutant of handleLoginResponse: the session opens, the token is not stored.
handleLoginResponse_NoStore(r, resp) ==
    /\ variant = "real"
    /\ r \in loginReqs
    /\ loginReqs' = loginReqs \ {r}
    /\ IF Parsed(resp)
       THEN /\ isLoggedIn' = TRUE
            /\ run' = IF isLoggedIn THEN run
                      ELSE Run(messages = <<>> /\ ~Pending)
       ELSE UNCHANGED <<isLoggedIn, run>>
    /\ lastOp' = Op("handleLoginResponse", r.id, resp)
    /\ UNCHANGED <<variant, username, messages, userInput, conversations,
                   currentConversation, localStorage, chatReqs, timers, now,
                   nLogins, nextId, origin>>

\* Mutant of handleLoginResponse: a failed login is sent again.
handleLoginResponse_Retry(r, resp) ==
    /\ variant = "real"
    /\ r \in loginReqs
    /\ IF Parsed(resp)
       THEN /\ loginReqs' = loginReqs \ {r}
            /\ localStorage' = setItem("access_token", ToString(resp.val))
            /\ isLoggedIn' = TRUE
            /\ run' = IF isLoggedIn THEN run
                      ELSE Run(messages = <<>> /\ ~Pending)
       ELSE UNCHANGED <<loginReqs, localStorage, isLoggedIn, run>>
    /\ lastOp' = Op("handleLoginResponse", r.id, resp)
    /\ UNCHANGED <<variant, username, messages, origin, userInput,
                   conversations, currentConversation, chatReqs, timers, now,
                   nLogins, nextId>>

\* ChatApp.tsx handleLogin after the await: the response (or the rejection)
\* of login request r is handled.
handleLoginResponse(r, resp) ==
    /\ variant = "real"
    /\ r \in loginReqs
    /\ loginReqs' = loginReqs \ {r}
    /\ IF Parsed(resp)
       THEN /\ localStorage' = setItem("access_token", ToString(resp.val))
            /\ isLoggedIn' = TRUE
            /\ run' = IF isLoggedIn THEN run
                      ELSE Run(messages = <<>> /\ ~Pending)
       ELSE UNCHANGED <<localStorage, isLoggedIn, run>>   \* console.error
    /\ lastOp' = Op("handleLoginResponse", r.id, resp)
    /\ UNCHANGED <<variant, username, messages, userInput, conversations,
                   currentConversation, chatReqs, timers, now, nLogins,
                   nextId, origin>>

\* part_001 handleLogin: no backend, the session opens at once.
handleLoginMulti ==
    /\ variant = "multi"
    /\ ~isLoggedIn
    /\ IF Truthy(Trim(username))
       THEN /\ isLoggedIn' = TRUE
            /\ run' = Run(messages = <<>> /\ ~Pending)
       ELSE UNCHANGED <<isLoggedIn, run>>
    /\ lastOp' = Op("handleLogin", 0, NoResp)
    /\ UNCHANGED <<variant, username, messages, userInput, conversations,
                   currentConversation, localStorage, loginReqs, chatReqs,
                   timers, now, nLogins, nextId, origin>>

\* `Hello ${username}! How can I assist you today?`
Greeting(u) == <<"Hello ">> \o u \o <<"! How can I assist you today?">>

\* part_002 handleLogin: no backend; the log starts with a greeting.
handleLoginSim ==
    /\ variant = "sim"
    /\ ~isLoggedIn
    /\ IF Truthy(Trim(username))
       THEN /\ isLoggedIn' = TRUE
            /\ messages' = << Message("assistant", Some(Greeting(username))) >>
            /\ origin' = <<0>>
            /\ run' = Run(~Pending)
       ELSE UNCHANGED <<isLoggedIn, messages, origin, run>>
    /\ lastOp' = Op("handleLogin", 0, NoResp)
    /\ UNCHANGED <<variant, username, userInput, conversations,
                   currentConversation, localStorage, loginReqs, chatReqs,
                   timers, now, nLogins, nextId>>

-----------------------------------------------------------------------------
(* The chat screen (rendered while isLoggedIn). *)

\* Mutant of handleLogoutReal: setMessages([]) is missing.
handleLogoutReal_KeepMessages ==
    /\ variant = "real"
    /\ isLoggedIn
    /\ isLoggedIn' = FALSE
    /\ username' = <<>>
    /\ userInput' = <<>>
    /\ localStorage' = removeItem("access_token")
    /\ run' = NoRun
    /\ lastOp' = Op("handleLogout", 0, NoResp)
    /\ UNCHANGED <<variant, messages, conversations, currentConversation,
                   loginReqs, chatReqs, timers, now, nLogins, nextId, origin>>

\* ChatApp.tsx handleLogout
handleLogoutReal ==
    /\ variant = "real"
    /\ isLoggedIn
    /\ isLoggedIn' = FALSE
    /\ username' = <<>>
    /\ messages' = <<>>
    /\ origin' = <<>>
    /\ userInput' = <<>>
    /\ localStorage' = removeItem("access_token")
    /\ run' = NoRun
    /\ lastOp' = Op("handleLogout", 0, NoResp)
    /\ UNCHANGED <<variant, conversations, currentConversation, loginReqs,
                   chatReqs, timers, now, nLogins, nextId>>

\* Mutant of handleLogoutMulti: setCurrentConversation(null) is missing.
handleLogoutMulti_KeepCurrent ==
    /\ variant = "multi"
    /\ isLoggedIn
    /\ isLoggedIn' = FALSE
    /\ username' = <<>>
    /\ conversations' = <<>>
    /\ messages' = <<>>
    /\ origin' = <<>>
    /\ run' = NoRun
    /\ lastOp' = Op("handleLogout", 0, NoResp)
    /\ UNCHANGED <<variant, userInput, currentConversation, localStorage,
                   loginReqs, chatReqs, timers, now, nLogins, nextId>>

\* part_001 handleLogout
handleLogoutMulti ==
    /\ variant = "multi"
    /\ isLoggedIn
    /\ isLoggedIn' = FALSE
    /\ username' = <<>>
    /\ conversations' = <<>>
    /\ currentConversation' = undefined
    /\ messages' = <<>>
    /\ origin' = <<>>
    /\ run' = NoRun
    /\ lastOp' = Op("handleLogout", 0, NoResp)
    /\ UNCHANGED <<variant, userInput, localStorage, loginReqs, chatReqs,
                   timers, now, nLogins, nextId>>

\* part_002 handleLogout
handleLogoutSim ==
    /\ variant = "sim"
    /\ isLoggedIn
    /\ isLoggedIn' = FALSE
    /\ username' = <<>>
    /\ messages' = <<>>
    /\ origin' = <<>>
    /\ userInput' = <<>>
    /\ run' = NoRun
    /\ lastOp' = Op("handleLogout", 0, NoResp)
    /\ UNCHANGED <<variant, conversations, currentConversation, localStorage,
                   loginReqs, chatReqs, timers, now, nLogins, nextId>>

\* onChange of the message input: setUserInput(e.target.value)
setUserInput(v) ==
    /\ isLoggedIn
    /\ v # userInput
    /\ userInput' = v
    /\ lastOp' = Op("setUserInput", 0, NoResp)
    /\ UNCHANGED <<variant, isLoggedIn, username, messages, conversations,
                   currentConversation, localStorage, loginReqs, chatReqs,
                   timers, now, nLogins, nextId, run, origin>>

\* Mutant of handleSubmitReal: the user's message is not appended.
handleSubmitReal_NoAppend ==
    /\ variant = "real"
    /\ isLoggedIn
    /\ IF Truthy(Trim(userInput))
       THEN /\ nextId < MaxSubmits
            /\ nextId' = nextId + 1
            /\ userInput' = <<>>
            /\ run' = Sent(run)
            /\ chatReqs' = chatReqs \cup
                    { [id |-> nextId + 1, message |-> userInput,
                       username |-> username,
                       bearer |-> getItem("access_token")] }
       ELSE UNCHANGED <<nextId, userInput, chatReqs, run>>
    /\ lastOp' = Op("handleSubmit", nextId', NoResp)
    /\ UNCHANGED <<variant, isLoggedIn, username, messages, origin,
                   conversations, currentConversation, localStorage,
                   loginReqs, timers, now, nLogins>>

\* ChatApp.tsx handleSubmit up to the await: append the user's message and
\* issue POST /chat with the stored token.
handleSubmitReal ==
    /\ variant = "real"
    /\ isLoggedIn
    /\ IF Truthy(Trim(userInput))
       THEN /\ nextId < MaxSubmits
            /\ nextId' = nextId + 1
            /\ messages' = Append(messages, Message("user", Some(userInput)))
            /\ origin' = Append(origin, nextId + 1)
            /\ userInput' = <<>>
            /\ run' = Sent(run)
            /\ chatReqs' = chatReqs \cup
                    { [id |-> nextId + 1, message |-> userInput,
                       username |-> username,
                       bearer |-> getItem("access_token")] }
       ELSE UNCHANGED <<nextId, messages, origin, userInput, chatReqs,
                        run>>
    /\ lastOp' = Op("handleSubmit", nextId', NoResp)
    /\ UNCHANGED <<variant, isLoggedIn, username, conversations,
                   currentConversation, localStorage, loginReqs, timers, now,
                   nLogins>>

\* Mutant of handleSubmitResponse: the reply is put in front of the log.
handleSubmitResponse_Prepend(r, resp) ==
    /\ variant = "real"
    /\ r \in chatReqs
    /\ chatReqs' = chatReqs \ {r}
    /\ IF Parsed(resp)
       THEN /\ messages' = <<Message("assistant", resp.val)>> \o messages
            /\ origin' = <<r.id>> \o origin
            /\ run' = Replied(run)
       ELSE UNCHANGED <<messages, origin, run>>
    /\ lastOp' = Op("handleSubmitResponse", r.id, resp)
    /\ UNCHANGED <<variant, isLoggedIn, username, userInput, conversations,
                   currentConversation, localStorage, loginReqs, timers, now,
                   nLogins, nextId>>

\* Mutant of handleSubmitResponse: a request that failed is sent again.
handleSubmitResponse_Retry(r, resp) ==
    /\ variant = "real"
    /\ r \in chatReqs
    /\ IF Parsed(resp)
       THEN /\ chatReqs' = chatReqs \ {r}
            /\ messages' = Append(messages, Message("assistant", resp.val))
            /\ origin' = Append(origin, r.id)
            /\ run' = Replied(run)
       ELSE UNCHANGED <<chatReqs, messages, origin, run>>
    /\ lastOp' = Op("handleSubmitResponse", r.id, resp)
    /\ UNCHANGED <<variant, isLoggedIn, username, userInput, conversations,
                   currentConversation, localStorage, loginReqs, timers, now,
                   nLogins, nextId>>

\* Mutant of handleSubmitResponse: replies are delivered in send order.
handleSubmitResponse_InOrder(r, resp) ==
    /\ variant = "real"
    /\ r \in chatReqs
    /\ \A q \in chatReqs : r.id <= q.id
    /\ chatReqs' = chatReqs \ {r}
    /\ IF Parsed(resp)
       THEN /\ messages' = Append(messages, Message("assistant", resp.val))
            /\ origin' = Append(origin, r.id)
            /\ run' = Replied(run)
       ELSE UNCHANGED <<messages, origin, run>>
    /\ lastOp' = Op("handleSubmitResponse", r.id, resp)
    /\ UNCHANGED <<variant, isLoggedIn, username, userInput, conversations,
                   currentConversation, localStorage, loginReqs, timers, now,
                   nLogins, nextId>>

\* ChatApp.tsx handleSubmit after the await: the response (or the rejection)
\* of chat request r is handled.
handleSubmitResponse(r, resp) ==
    /\ variant = "real"
    /\ r \in chatReqs
    /\ chatReqs' = chatReqs \ {r}
    /\ IF Parsed(resp)
       THEN /\ messages' = Append(messages, Message("assistant", resp.val))
            /\ origin' = Append(origin, r.id)
            /\ run' = Replied(run)
       ELSE UNCHANGED <<messages, origin, run>>      \* console.error only
    /\ lastOp' = Op("handleSubmitResponse", r.id, resp)
    /\ UNCHANGED <<variant, isLoggedIn, username, userInput, conversations,
                   currentConversation, localStorage, loginReqs, timers, now,
                   nLogins, nextId>>

\* `Hello ${username}, this is a simulated response.`
SimulatedHello(u) == <<"Hello ">> \o u \o <<", this is a simulated response.">>

\* `This is a simulated response to "${userInput}".`
SimulatedEcho(t) == <<"This is a simulated response to \"">> \o t \o <<"\".">>

\* Mutant of handleSubmitMulti: setMessages([newMessage]) drops the log.
handleSubmitMulti_Replace ==
    /\ variant = "multi"
    /\ isLoggedIn
    /\ IF Truthy(Trim(userInput))
       THEN /\ nextId < MaxSubmits
            /\ nextId' = nextId + 1
            /\ messages' = << Message("user", Some(userInput)) >>
            /\ origin' = << nextId + 1 >>
            /\ userInput' = <<>>
            /\ run' = Sent(run)
            /\ timers' = Append(timers,
                    [id |-> nextId + 1, message |-> userInput,
                     content |-> Some(SimulatedHello(username))])
       ELSE UNCHANGED <<nextId, messages, origin, userInput, timers,
                        run>>
    /\ lastOp' = Op("handleSubmit", nextId', NoResp)
    /\ UNCHANGED <<variant, isLoggedIn, username, conversations,
                   currentConversation, localStorage, loginReqs, chatReqs,
                   now, nLogins>>

\* part_001 handleSubmit: append the user's message, start the 1000 ms timer.
handleSubmitMulti ==
    /\ variant = "multi"
    /\ isLoggedIn
    /\ IF Truthy(Trim(userInput))
       THEN /\ nextId < MaxSubmits
            /\ nextId' = nextId + 1
            /\ messages' = Append(messages, Message("user", Some(userInput)))
            /\ origin' = Append(origin, nextId + 1)
            /\ userInput' = <<>>
            /\ run' = Sent(run)
            /\ timers' = Append(timers,
                    [id |-> nextId + 1, message |-> userInput,
                     content |-> Some(SimulatedHello(username))])
       ELSE UNCHANGED <<nextId, messages, origin, userInput, timers,
                        run>>
    /\ lastOp' = Op("handleSubmit", nextId', NoResp)
    /\ UNCHANGED <<variant, isLoggedIn, username, conversations,
                   currentConversation, localStorage, loginReqs, chatReqs,
                   now, nLogins>>

\* part_002 handleSubmit: append the user's message, start the 1000 ms timer.
handleSubmitSim ==
    /\ variant = "sim"
    /\ isLoggedIn
    /\ IF Truthy(Trim(userInput))
       THEN /\ nextId < MaxSubmits
            /\ nextId' = nextId + 1
            /\ messages' = Append(messages, Message("user", Some(userInput)))
            /\ origin' = Append(origin, nextId + 1)
            /\ userInput' = <<>>
            /\ run' = Sent(run)
            /\ timers' = Append(timers,
                    [id |-> nextId + 1, message |-> userInput,
                     content |-> Some(SimulatedEcho(userInput))])
       ELSE UNCHANGED <<nextId, messages, origin, userInput, timers,
                        run>>
    /\ lastOp' = Op("handleSubmit", nextId', NoResp)
    /\ UNCHANGED <<variant, isLoggedIn, username, conversations,
                   currentConversation, localStorage, loginReqs, chatReqs,
                   now, nLogins>>

\* The setTimeout callback of handleSubmit (part_001, part_002).  All timers
\* have the same delay, so they fire in the order they were started.
simulatedResponse ==
    /\ timers # <<>>
    /\ messages' = Append(messages, Message("assistant", Head(timers).content))
    /\ origin' = Append(origin, Head(timers).id)
    /\ timers' = Tail(timers)
    /\ run' = Replied(run)
    /\ lastOp' = Op("simulatedResponse", Head(timers).id, NoResp)
    /\ UNCHANGED <<variant, isLoggedIn, username, userInput, conversations,
                   currentConversation, localStorage, loginReqs, chatReqs,
                   now, nLogins, nextId>>

-----------------------------------------------------------------------------
(* The Conversation Registry (part_001). *)

\* The clock advances: Date.now() has millisecond resolution.
Tick ==
    /\ variant = "multi"
    /\ now < MaxClock
    /\ now' = now + 1
    /\ lastOp' = Op("Tick", 0, NoResp)
    /\ UNCHANGED <<variant, isLoggedIn, username, messages, userInput,
                   conversations, currentConversation, localStorage,
                   loginReqs, chatReqs, timers, nLogins, nextId, run, origin>>

\* Mutant of addNewConversation: the new conversation is put first.
addNewConversation_Prepend ==
    /\ variant = "multi"
    /\ isLoggedIn
    /\ Len(conversations) < MaxConvs
    /\ LET newConversation == Conversation(now, Len(conversations) + 1)
       IN  /\ conversations' = <<newConversation>> \o conversations
           /\ currentConversation' = Some(newConversation)
    /\ messages' = <<>>
    /\ origin' = <<>>
    /\ run' = Cleared(run)
    /\ lastOp' = Op("addNewConversation", 0, NoResp)
    /\ UNCHANGED <<variant, isLoggedIn, username, userInput, localStorage,
                   loginReqs, chatReqs, timers, now, nLogins, nextId>>

\* part_001 addNewConversation
addNewConversation ==
    /\ variant = "multi"
    /\ isLoggedIn
    /\ Len(conversations) < MaxConvs
    /\ LET newConversation == Conversation(now, Len(conversations) + 1)
       IN  /\ conversations' = Append(conversations, newConversation)
           /\ currentConversation' = Some(newConversation)
    /\ messages' = <<>>
    /\ origin' = <<>>
    /\ run' = Cleared(run)
    /\ lastOp' = Op("addNewConversation", 0, NoResp)
    /\ UNCHANGED <<variant, isLoggedIn, username, userInput, localStorage,
                   loginReqs, chatReqs, timers, now, nLogins, nextId>>

\* part_001 selectConversation, called from the button of an entry of
\* conversations.
selectConversation(conversation) ==
    /\ variant = "multi"
    /\ isLoggedIn
    /\ \E i \in 1..Len(conversations) : conversations[i] = conversation
    /\ currentConversation' = Some(conversation)
    /\ messages' = <<>>
    /\ origin' = <<>>
    /\ run' = Cleared(run)
    /\ lastOp' = Op("selectConversation", 0, NoResp)
    /\ UNCHANGED <<variant, isLoggedIn, username, userInput, conversations,
                   localStorage, loginReqs, chatReqs, timers, now, nLogins,
                   nextId>>

-----------------------------------------------------------------------------

Next ==
    \/ \E v \in Strings : setUsername(v)
    \/ handleLoginReal
    \/ \E r \in loginReqs : \E resp \in Responses(Tokens) :
            handleLoginResponse(r, resp)
    \/ handleLoginMulti
    \/ handleLoginSim
    \/ handleLogoutReal
    \/ handleLogoutMulti
    \/ handleLogoutSim
    \/ \E v \in Strings : setUserInput(v)
    \/ handleSubmitReal
    \/ \E r \in chatReqs : \E resp \in Responses(Replies) :
            handleSubmitResponse(r, resp)
    \/ handleSubmitMulti
    \/ handleSubmitSim
    \/ simulatedResponse
    \/ Tick
    \/ addNewConversation
    \/ \E i \in 1..Len(conversations) : selectConversation(conversations[i])

Spec == Init /\ [][Next]_vars

\* The scheduling the runtime gives: the network answers or fails every
\* fetch, so the continuation of each chat request in flight is eventually
\* resumed, and a timer that was set eventually fires.
FairSpec ==
    /\ Spec
    /\ \A id \in 1..MaxSubmits :
        WF_vars(\E r \in chatReqs : \E resp \in Responses(Replies) :
                    r.id = id /\ handleSubmitResponse(r, resp))
    /\ WF_vars(simulatedResponse)

-----------------------------------------------------------------------------
(* Vocabulary of the properties. *)

\* Blank: empty or white space only (stated without Trim).
IsBlank(s) == \A i \in 1..Len(s) : s[i] = " "

\* The token stored under access_token: the empty set when none is stored.
StoredToken == getItem("access_token")

\* A failure: transport error or non-2xx status.
Failed(resp) == resp.net = "error" \/ (resp.net = "done" /\ ~resp.ok)

\* A 2xx response whose body does not parse, or lacks the expected field.
NoField(resp) ==
    resp.net = "done" /\ resp.ok /\ (~resp.json \/ resp.val = undefined)

\* A 2xx response whose body carries the expected field.
WithField(resp) ==
    resp.net = "done" /\ resp.ok /\ resp.json /\ resp.val # undefined

\* The steps that empty the Message Log by design.
ClearingOps == {"handleLogout", "selectConversation", "addNewConversation"}

\* The requests awaiting their reply: fetches in flight and pending timers.
PendingIds ==
    { r.id : r \in chatReqs } \cup { timers[i].id : i \in 1..Len(timers) }

\* The n exchanges after the first `base` messages alternate user, assistant.
Alternates(log, base, n) ==
    \A i \in 1..(2 * n) :
        log[base + i].role = IF i % 2 = 1 THEN "user" ELSE "assistant"

-----------------------------------------------------------------------------
(* C1 *)

\* C1: the state right after handleLogout is the initial LoggedOut state:
\* not authenticated, username empty, no stored token, registry empty with
\* no conversation selected, Message Log empty - also when chat requests
\* are still in flight.
C1_LogoutResets ==
    lastOp.op = "handleLogout" =>
        /\ ~isLoggedIn
        /\ username = <<>>
        /\ StoredToken = {}
        /\ conversations = <<>>
        /\ currentConversation = undefined
        /\ messages = <<>>

\* Witness of C1: logout has just run with a chat request still in flight
\* (its user message had been in the log).
C1_Witness ==
    /\ lastOp.op = "handleLogout"
    /\ chatReqs # {}
    /\ messages = <<>>
    /\ ~isLoggedIn

-----------------------------------------------------------------------------
(* C2 *)

-----------------------------------------------------------------------------
(* C3 *)

\* C3: when a login request (issued for a non-blank username) is answered
\* by a 2xx response carrying a token, the session is authenticated and the
\* stored token is exactly the token of that response.
C3_LoginStoresToken ==
    /\ \A r \in loginReqs : ~IsBlank(r.username)
    /\ (lastOp.op = "handleLoginResponse" /\ WithField(lastOp.resp)) =>
            /\ isLoggedIn
            /\ StoredToken = { lastOp.resp.val[1] }

\* Witness of C3: the response to the first login carried T1 and opened
\* the session.
C3_Witness ==
    /\ lastOp.op = "handleLoginResponse"
    /\ lastOp.id = 1
    /\ WithField(lastOp.resp)
    /\ lastOp.resp.val = Some("T1")
    /\ nLogins = 1
    /\ isLoggedIn
    /\ StoredToken = {"T1"}

-----------------------------------------------------------------------------
(* C4 *)

\* C4: submitting the login form with an empty or white-space-only username
\* changes nothing: no login request is issued, and isAuthenticated, the
\* token, the registry and the Message Log stay as they were.
C4_BlankLoginNoop ==
    [][ (lastOp'.op = "handleLogin" /\ IsBlank(username)) =>
            UNCHANGED <<isLoggedIn, localStorage, conversations,
                        currentConversation, messages, loginReqs, nLogins,
                        chatReqs, timers>> ]_vars

\* Witness of C4: the form was submitted with a white-space-only username.
C4_Witness ==
    /\ lastOp.op = "handleLogin"
    /\ username = <<" ">>
    /\ ~isLoggedIn
    /\ loginReqs = {}
    /\ nLogins = 0

-----------------------------------------------------------------------------
(* C5 *)

\* C5: an accepted submission appends exactly the user's message, and the
\* handling of its failed chat request (non-2xx status or transport error)
\* appends nothing: the submission has made the log longer by exactly 1.
C5_FailedSendKeepsUserMessage ==
    [][ /\ (variant = "real" /\ lastOp'.op = "handleSubmit"
                /\ ~IsBlank(userInput)) =>
            messages' = Append(messages, Message("user", Some(userInput)))
        /\ (lastOp'.op = "handleSubmitResponse" /\ Failed(lastOp'.resp)) =>
            messages' = messages ]_vars

\* Witness of C5: the only submission of the run was answered with a non-2xx
\* status; the log holds the user's message and nothing else.
C5_Witness ==
    /\ lastOp.op = "handleSubmitResponse"
    /\ lastOp.resp.net = "done"
    /\ ~lastOp.resp.ok
    /\ nextId = 1
    /\ messages = << Message("user", Some(<<" ", "a">>)) >>

-----------------------------------------------------------------------------
(* C6 *)

\* C6 as stated: from a fresh login, N submissions that have received N
\* successful replies leave a log of length 2N whose roles strictly
\* alternate, starting with "user".
C6_Original ==
    (isLoggedIn /\ run.clean /\ run.sent >= 1 /\ run.sent = run.replied) =>
        /\ Len(messages) = 2 * run.sent
        /\ Alternates(messages, 0, run.sent)

\* C6 as amended: from a login that starts with nothing left of an earlier
\* session, N submissions that have received N successful replies leave the
\* log with 2N messages after the login greeting (part_002 only); the roles
\* strictly alternate, starting with "user", if no submission was accepted
\* while an earlier request was pending.
C6_TwoPerExchange ==
    (isLoggedIn /\ run.clean /\ run.sent = run.replied) =>
        LET base == IF variant = "sim" THEN 1 ELSE 0
        IN  /\ Len(messages) = base + 2 * run.sent
            /\ ~run.overlap => Alternates(messages, base, run.sent)

\* Witness of C6: two submissions, each answered before the next.
C6_Witness ==
    /\ variant = "real"
    /\ isLoggedIn
    /\ run.clean
    /\ ~run.overlap
    /\ run.sent = 2
    /\ run.replied = 2
    /\ Len(messages) = 4

-----------------------------------------------------------------------------
(* C7 *)

\* C7: the identifiers of the conversations of the registry are pairwise
\* distinct (each new identifier differs from every earlier one).
C7_DistinctIds ==
    \A i, j \in 1..Len(conversations) :
        i # j => conversations[i].id # conversations[j].id

-----------------------------------------------------------------------------
(* C8 *)

\* C8: the selected conversation is none or an entry of the registry.
C8_SelectedInRegistry ==
    currentConversation # undefined =>
        \E i \in 1..Len(conversations) :
            conversations[i] = currentConversation[1]

\* Witness of C8: the first of two conversations was selected again.
C8_Witness ==
    /\ lastOp.op = "selectConversation"
    /\ Len(conversations) = 2
    /\ currentConversation = Some(conversations[1])

-----------------------------------------------------------------------------
(* C9 *)

\* C9: handling a 2xx login response whose body has no (or a malformed)
\* access_token leaves the session unauthenticated and stores no token.
C9_NoTokenIsFailure ==
    [][ (lastOp'.op = "handleLoginResponse" /\ NoField(lastOp'.resp)) =>
            UNCHANGED <<isLoggedIn, localStorage>> ]_vars

-----------------------------------------------------------------------------
(* C10 *)

\* C10: handling a 2xx chat response whose body lacks the response field
\* appends no assistant message.
C10_NoReplyFieldIsFailure ==
    [][ (lastOp'.op = "handleSubmitResponse" /\ NoField(lastOp'.resp)) =>
            messages' = messages ]_vars

-----------------------------------------------------------------------------
(* C11 *)

\* C11: handling a failed login response (non-2xx status or transport
\* error) leaves the state as it was: isAuthenticated, the token, the
\* username, the Message Log and the registry are unchanged, the failed
\* request is gone and no login request is issued in its place.
C11_FailedLoginChangesNothing ==
    [][ (lastOp'.op = "handleLoginResponse" /\ Failed(lastOp'.resp)) =>
            /\ UNCHANGED <<isLoggedIn, localStorage, username, messages,
                           conversations, currentConversation, userInput,
                           chatReqs, timers, nLogins>>
            /\ loginReqs' = { r \in loginReqs : r.id # lastOp'.id } ]_vars

\* Witness of C11: the only login of the run was answered with a non-2xx
\* status; the session is unauthenticated, without token, nothing in flight.
C11_Witness ==
    /\ lastOp.op = "handleLoginResponse"
    /\ lastOp.resp.net = "done"
    /\ ~lastOp.resp.ok
    /\ nLogins = 1
    /\ loginReqs = {}
    /\ ~isLoggedIn
    /\ StoredToken = {}
    /\ messages = <<>>

-----------------------------------------------------------------------------
(* C12 *)

\* C12 (ChatApp.tsx): when the response to the login just submitted (the
\* only one in flight) carries a token and opens the session, the state
\* right after it has no conversation selected, an empty registry and an
\* empty Message Log, whatever happened in earlier sessions.
C12_LoginStartsEmpty ==
    [][ (variant = "real" /\ lastOp.op = "handleLogin"
            /\ ~IsBlank(username)
            /\ Cardinality(loginReqs) = 1 /\ lastOp'.id = nLogins
            /\ lastOp'.op = "handleLoginResponse" /\ WithField(lastOp'.resp)
            /\ ~isLoggedIn /\ isLoggedIn') =>
            /\ currentConversation' = undefined
            /\ conversations' = <<>>
            /\ messages' = <<>> ]_vars

-----------------------------------------------------------------------------
(* C13 *)

\* C13: addNewConversation appends exactly one conversation at the end of
\* the registry, keeping the earlier entries in their order, selects the
\* new conversation and leaves the Message Log empty.
C13_CreateAppendsAndSelects ==
    [][ lastOp'.op = "addNewConversation" =>
            /\ Len(conversations') = Len(conversations) + 1
            /\ SubSeq(conversations', 1, Len(conversations)) = conversations
            /\ currentConversation' = Some(conversations'[Len(conversations')])
            /\ \A i \in 1..Len(conversations) :
                    conversations[i] # conversations'[Len(conversations')]
            /\ messages' = <<>> ]_vars

\* Witness of C13: a second conversation was created after a message had
\* been submitted in the first.
C13_Witness ==
    /\ lastOp.op = "addNewConversation"
    /\ Len(conversations) = 2
    /\ currentConversation = Some(conversations[2])
    /\ nextId >= 1
    /\ messages = <<>>

-----------------------------------------------------------------------------
(* C14 *)

-----------------------------------------------------------------------------
(* C15 *)

\* C15: the step that accepts a non-blank submission appends the user's
\* message to the log and starts its request (which only later steps can
\* answer); a blank or white-space-only submission appends nothing and
\* starts no request.
C15_UserMessageAtSubmit ==
    [][ lastOp'.op = "handleSubmit" =>
            IF IsBlank(userInput)
            THEN UNCHANGED <<messages, chatReqs, timers, nextId>>
            ELSE ( /\ messages' =
                        Append(messages, Message("user", Some(userInput)))
                   /\ lastOp'.id \notin PendingIds
                   /\ PendingIds' = PendingIds \cup { lastOp'.id }
                   /\ variant = "real" =>
                        \E r \in chatReqs' \ chatReqs :
                            r.id = lastOp'.id /\ r.message = userInput )
      ]_vars

\* Witness of C15: the user's message is in the log while its chat request
\* is still in flight.
C15_Witness ==
    /\ variant = "real"
    /\ lastOp.op = "handleSubmit"
    /\ lastOp.id = 1
    /\ messages = << Message("user", Some(<<" ", "a">>)) >>
    /\ \E r \in chatReqs : r.id = 1

-----------------------------------------------------------------------------
(* C16 *)

\* C16: send order is not preserved. Whatever chat requests are in flight,
\* the reply to any one of them - the latest included - can be the next one
\* handled, and it is then appended at the end of the log, ahead of the
\* replies to the requests sent earlier that are still in flight.
C16_AnyReplyCanComeFirst ==
    \A r \in chatReqs : \A v \in Replies :
        ENABLED handleSubmitResponse(r,
                    [net |-> "done", ok |-> TRUE, json |-> TRUE,
                     val |-> Some(v)])

\* Witness of C16: two requests overlapped in flight and the log holds the
\* reply to the second submission before the reply to the first.
C16_Witness ==
    /\ variant = "real"
    /\ run.overlap
    /\ origin = <<1, 2, 2, 1>>
    /\ messages[3].role = "assistant"
    /\ messages[4].role = "assistant"

-----------------------------------------------------------------------------
(* C17 *)

\* The requests issued are exactly those numbered up to nextId, and the log
\* never holds more messages of one request than its user message and one
\* assistant message, the latter never while the request is still pending.
AtMostOneReply ==
    /\ PendingIds \subseteq 1..nextId
    /\ \A id \in 1..nextId :
        /\ Cardinality({ i \in 1..Len(messages) :
                origin[i] = id /\ messages[i].role = "assistant" }) <= 1
        /\ Cardinality({ i \in 1..Len(messages) :
                origin[i] = id /\ messages[i].role = "user" }) <= 1
        /\ id \in PendingIds =>
            ~ \E i \in 1..Len(messages) :
                origin[i] = id /\ messages[i].role = "assistant"

\* C17: one chat request per accepted submission, never retried. A step
\* starts a request only when it is a handleSubmit given a non-blank input,
\* and then it starts exactly one, under a fresh id; the step that handles
\* the response or the failure of a request retires that request, whatever
\* the outcome, and appends at most one message; no other step starts or
\* retires a request; and after every step the log holds at most one
\* assistant message per request issued.
C17_OneRequestNoRetry ==
    [][ /\ (lastOp'.op = "handleSubmit" /\ ~IsBlank(userInput)) =>
            /\ nextId' = nextId + 1
            /\ lastOp'.id = nextId'
            /\ lastOp'.id \notin PendingIds
            /\ PendingIds' = PendingIds \cup { lastOp'.id }
        /\ (lastOp'.op \in {"handleSubmitResponse", "simulatedResponse"}) =>
            /\ lastOp'.id \in PendingIds
            /\ PendingIds' = PendingIds \ { lastOp'.id }
            /\ nextId' = nextId
            /\ Len(messages') <= Len(messages) + 1
        /\ ~ ( \/ lastOp'.op = "handleSubmit" /\ ~IsBlank(userInput)
               \/ lastOp'.op \in {"handleSubmitResponse", "simulatedResponse"} )
            => (PendingIds' = PendingIds /\ nextId' = nextId)
        /\ AtMostOneReply'
      ]_vars

\* Witness of C17: the first request has failed and is retired without a
\* reply, the second has been answered by one message.
C17_Witness ==
    /\ variant = "real"
    /\ nextId = 2
    /\ PendingIds = {}
    /\ lastOp.op = "handleSubmitResponse"
    /\ origin = <<1, 2, 2>>
    /\ messages[3].role = "assistant"

-----------------------------------------------------------------------------
(* C18 *)

\* C18: when the network answers or fails every request (FairSpec), every
\* chat request that is awaiting its reply is eventually resolved: no
\* request stays outstanding forever.
C18_EveryRequestResolved ==
    \A id \in 1..MaxSubmits : (id \in PendingIds) ~> (id \notin PendingIds)

\* Witness of C18: both requests have been resolved, the last one by a
\* failure that appended nothing.
C18_Witness ==
    /\ variant = "real"
    /\ nextId = 2
    /\ PendingIds = {}
    /\ lastOp.op = "handleSubmitResponse"
    /\ Failed(lastOp.resp)
    /\ messages[Len(messages)].role = "user"

-----------------------------------------------------------------------------
(* C19 *)

\* C19: once logout has happened the session stays unauthenticated, with no
\* stored token, until a login submitted after the logout succeeds. A login
\* response handled in the step right after handleLogout answers a request
\* issued before the logout, so it must leave the session unauthenticated,
\* even when it is a 2xx response that carries a token.
C19_StaleLoginCannotAuthenticate ==
    [][ (variant = "real" /\ lastOp.op = "handleLogout"
            /\ lastOp'.op = "handleLoginResponse"
            /\ WithField(lastOp'.resp)) =>
            (~isLoggedIn' /\ StoredToken' = {}) ]_vars

-----------------------------------------------------------------------------
(* C20 *)

\* C20: in every reachable state in which the session is not authenticated
\* the Message Log is empty; a reply that completes after logout is not
\* appended.
C20_LoggedOutLogEmpty ==
    ~isLoggedIn => messages = <<>>

-----------------------------------------------------------------------------
(* C21 *)

\* C21: a reply lands only in the log of the conversation that was selected
\* when its user message was submitted. While a conversation is selected,
\* each assistant message of the active log is preceded in that log by the
\* user message of the same request.
C21_ReplyFollowsItsUserMessage ==
    (variant = "multi" /\ isLoggedIn /\ currentConversation # undefined) =>
        \A i \in 1..Len(messages) :
            messages[i].role = "assistant" =>
                \E j \in 1..(i - 1) :
                    /\ origin[j] = origin[i]
                    /\ messages[j].role = "user"

-----------------------------------------------------------------------------
(* C22 *)

\* C22: in the multi-conversation variant a submission is accepted only
\* while a conversation is selected. In every state of a session in which
\* no conversation is selected the Message Log is empty and no request is
\* awaiting its reply.
C22_NoConversationNoSubmission ==
    (variant = "multi" /\ isLoggedIn /\ currentConversation = undefined) =>
        (messages = <<>> /\ PendingIds = {})

=============================================================================
